---- MODULE Spec2Model ----
(***************************************************************************)
(* RefineFlow: the ActivityState merge engine (core/state.py) and the      *)
(* entry flow that persists its result (cli/flows.py, storage/filesystem). *)
(*                                                                         *)
(* Representation of the Python values:                                    *)
(*   str (where lower()/strip() are applied) : sequence of 1-char strings  *)
(*   list                                    : sequence                    *)
(*   dict (insertion ordered)                : sequence of <<key, value>>  *)
(*                                             pairs with distinct keys    *)
(*   timestamps                              : Nat, 0 is the empty string  *)
(***************************************************************************)
EXTENDS Integers, Sequences, FiniteSets, TLC

VARIABLES
    self,         \* the ActivityState merge_with is called on (base)
    new_state,    \* the argument of merge_with (incoming)
    merged,       \* the value merge_with returned, NoState before the call
    pc,           \* position: "call" before merge_with, "returned" after
    state_json,   \* state.json of the activity (the persisted ActivityState)
    status,       \* status in activity.json
    log_md,       \* the entries appended to log.md
    clock,        \* the wall clock read by get_timestamp()
    result_data,  \* the parsed LLM result the last process_entry built a state from
    jira_content, \* the text validate_jira_structure is given, or the export generated
    validation,   \* the pair validate_jira_structure returned
    checks,       \* backend_count, frontend_count and week_estimates at that return
    logged,       \* the records the loggers were handed, in order
    export_text,  \* the text export_markdown returned
    jira_export_md, \* jira_export.md of the activity
    activities,   \* the activities directory: the files of each slug
    index,        \* the rows of the activities table of the SQLite index, by slug
    slug          \* the slug the last storage operation was called with

vars == <<self, new_state, merged, pc, state_json, status, log_md, clock, result_data,
          jira_content, validation, checks, logged, export_text, jira_export_md,
          activities, index, slug>>

\* the variables of the Jira export and its validator
jira_vars == <<jira_content, validation, checks, logged, export_text, jira_export_md>>

\* the variables of the storage that holds every activity
storage_vars == <<activities, index, slug>>

\* the variables of the activity and of the merge
activity_vars ==
    <<self, new_state, merged, state_json, status, log_md, clock, result_data>>

----------------------------------------------------------------------------
(* Bounds *)

\* total number of list items (strings or records) the two inputs of one
\* merge hold together in the list field under study
MaxItems == 3

\* total number of questions the open_questions of the two inputs of one
\* merge hold together
MaxQuestions == 2

\* the flows stop reading the clock at this tick
MaxClock == 5

----------------------------------------------------------------------------
(* Characters and strings *)

\* code points of the characters the inputs use (ASCII)
CodePoint ==
    ("\t" :> 9) @@ ("\n" :> 10) @@ (" " :> 32) @@ ("#" :> 35) @@ ("*" :> 42)
    @@ ("-" :> 45) @@ ("." :> 46) @@ ("0" :> 48) @@ ("1" :> 49) @@ ("2" :> 50)
    @@ ("3" :> 51) @@ ("4" :> 52) @@ ("5" :> 53) @@ ("6" :> 54) @@ ("7" :> 55)
    @@ ("8" :> 56) @@ ("9" :> 57) @@ (":" :> 58) @@ (">" :> 62) @@ ("A" :> 65) @@ ("B" :> 66)
    @@ ("C" :> 67) @@ ("D" :> 68) @@ ("E" :> 69) @@ ("F" :> 70) @@ ("P" :> 80)
    @@ ("Q" :> 81) @@ ("S" :> 83) @@ ("T" :> 84) @@ ("W" :> 87) @@ ("[" :> 91)
    @@ ("]" :> 93) @@ ("a" :> 97) @@ ("b" :> 98) @@ ("c" :> 99) @@ ("d" :> 100)
    @@ ("e" :> 101) @@ ("f" :> 102) @@ ("g" :> 103) @@ ("h" :> 104) @@ ("i" :> 105)
    @@ ("j" :> 106) @@ ("k" :> 107) @@ ("l" :> 108) @@ ("m" :> 109) @@ ("n" :> 110)
    @@ ("o" :> 111) @@ ("p" :> 112) @@ ("q" :> 113) @@ ("r" :> 114) @@ ("s" :> 115)
    @@ ("t" :> 116) @@ ("u" :> 117) @@ ("v" :> 118) @@ ("w" :> 119) @@ ("x" :> 120)
    @@ ("y" :> 121) @@ ("z" :> 122) @@ ("I" :> 73) @@ ("R" :> 82) @@ ("_" :> 95)
    @@ ("G" :> 71) @@ ("J" :> 74) @@ ("L" :> 76) @@ ("á" :> 225) @@ ("ã" :> 227)
    @@ ("ç" :> 231) @@ ("é" :> 233) @@ ("ê" :> 234) @@ ("í" :> 237) @@ ("ó" :> 243)
    @@ ("→" :> 8594)

Alphabet == DOMAIN CodePoint

\* the characters str.strip() removes and the pattern \s matches
Whitespace == {" ", "\t", "\n"}

\* the characters the pattern \d matches
Digits == {"0", "1", "2", "3", "4", "5", "6", "7", "8", "9"}

\* str.lower() on one character
LowerChar(c) ==
    IF CodePoint[c] >= 65 /\ CodePoint[c] <= 90
    THEN CHOOSE d \in Alphabet : CodePoint[d] = CodePoint[c] + 32
    ELSE c

\* str.lower()
Lower(s) == [i \in DOMAIN s |-> LowerChar(s[i])]

\* str.strip(): drop leading and trailing whitespace
Strip(s) ==
    LET idx == {i \in DOMAIN s : s[i] \notin Whitespace}
    IN IF idx = {} THEN <<>>
       ELSE LET lo == CHOOSE i \in idx : \A j \in idx : i <= j
                hi == CHOOSE i \in idx : \A j \in idx : i >= j
            IN SubSeq(s, lo, hi)

\* item.strip(): a key that keeps the case
StringKeyCaseSensitive(item) == Strip(item)

\* the dedupe key of a string: item.lower().strip()
StringKey(item) == Strip(Lower(item))

\* Python's str < str: lexicographic by code point
RECURSIVE StrLess(_, _)
StrLess(s, t) ==
    IF t = <<>> THEN FALSE
    ELSE IF s = <<>> THEN TRUE
    ELSE IF CodePoint[Head(s)] # CodePoint[Head(t)]
         THEN CodePoint[Head(s)] < CodePoint[Head(t)]
         ELSE StrLess(Tail(s), Tail(t))

----------------------------------------------------------------------------
(* dict *)

DictKeys(d) == {d[i][1] : i \in DOMAIN d}

DictHas(d, k) == k \in DictKeys(d)

DictGet(d, k) == d[CHOOSE i \in DOMAIN d : d[i][1] = k][2]

\* d[k] = v : replaces the value in place, or appends a new key
DictSet(d, k, v) ==
    IF DictHas(d, k)
    THEN [i \in DOMAIN d |-> IF d[i][1] = k THEN <<k, v>> ELSE d[i]]
    ELSE Append(d, <<k, v>>)

\* tuple < tuple for (key, value) pairs of strings
PairLess(p, q) ==
    IF p[1] # q[1] THEN StrLess(p[1], q[1]) ELSE StrLess(p[2], q[2])

\* sorted(item.items()): insertion sort of the pairs
RECURSIVE InsertPair(_, _)
InsertPair(p, sorted) ==
    IF sorted = <<>> THEN <<p>>
    ELSE IF PairLess(p, Head(sorted)) THEN <<p>> \o sorted
    ELSE <<Head(sorted)>> \o InsertPair(p, Tail(sorted))

RECURSIVE SortedItems(_)
SortedItems(item) ==
    IF item = <<>> THEN <<>>
    ELSE InsertPair(Head(item), SortedItems(Tail(item)))

----------------------------------------------------------------------------
(* ActivityState *)

NoState == [none |-> TRUE]

\* no parsed result: process_entry returned before it had one
NoData == [nodata |-> TRUE]

\* the Python value None where a str is expected
None == <<"None">>

\* no text yet: nothing was generated and the validator was not called
NoContent == <<"NoContent">>

\* validate_jira_structure has not returned
NoValidation == [is_valid |-> FALSE, warnings |-> <<"NoValidation">>]

\* the validator did not come to the end of its checks
NoChecks == [none |-> TRUE]

\* export_markdown has not returned
NoExport == [none |-> TRUE]

\* no file at this path
NoFile == <<"NoFile">>

\* no storage operation was called
NoSlug == <<"NoSlug">>

\* nothing exported, validated or logged
JiraIdle ==
    /\ jira_content = NoContent
    /\ validation = NoValidation
    /\ checks = NoChecks
    /\ logged = <<>>
    /\ export_text = NoExport

\* no activity on disk, no row in the index
StorageIdle ==
    /\ activities = <<>>
    /\ index = <<>>
    /\ slug = NoSlug

\* ActivityState(): every field at its default
EmptyState ==
    [summary |-> "",
     action_items |-> <<>>,
     open_questions |-> <<>>,
     decisions |-> <<>>,
     functional_requirements |-> <<>>,
     non_functional_requirements |-> <<>>,
     identified_risks |-> <<>>,
     dependencies |-> <<>>,
     metrics |-> <<>>,
     costs |-> <<>>,
     information_gaps |-> <<>>,
     canvas |-> <<>>,
     last_updated |-> 0]

StringListFields ==
    {"functional_requirements", "non_functional_requirements", "information_gaps"}

RecordListFields ==
    {"action_items", "decisions", "identified_risks", "dependencies", "metrics", "costs"}

----------------------------------------------------------------------------
(* merge_with and its helpers *)

\* tuple(item.items()): a key that keeps the insertion order of the keys
ItemKeyUnsorted(item) == item

\* the key dedupe_list gives a dict item: tuple(sorted(item.items()))
ItemKey(item) == SortedItems(item)

RECURSIVE dedupe_list_loop(_, _, _)
dedupe_list_loop(items, seen, result) ==
    IF items = <<>> THEN result
    ELSE LET item == Head(items)
             key == ItemKey(item)
         IN IF key \notin seen
            THEN dedupe_list_loop(Tail(items), seen \cup {key}, Append(result, item))
            ELSE dedupe_list_loop(Tail(items), seen, result)

\* the combined list as it is, duplicates included
dedupe_list_keep_all(items) == items

dedupe_list(items) == dedupe_list_loop(items, {}, <<>>)

RECURSIVE dedupe_strings_loop(_, _, _)
dedupe_strings_loop(items, seen, result) ==
    IF items = <<>> THEN result
    ELSE LET item == Head(items)
             key == StringKey(item)
         IN IF key \notin seen /\ key # <<>>
            THEN dedupe_strings_loop(Tail(items), seen \cup {key}, Append(result, item))
            ELSE dedupe_strings_loop(Tail(items), seen, result)

\* dedupe_strings without the test that the key is not empty
RECURSIVE dedupe_strings_keep_blank_loop(_, _, _)
dedupe_strings_keep_blank_loop(items, seen, result) ==
    IF items = <<>> THEN result
    ELSE LET item == Head(items)
             key == StringKey(item)
         IN IF key \notin seen
            THEN dedupe_strings_keep_blank_loop(Tail(items), seen \cup {key},
                                                Append(result, item))
            ELSE dedupe_strings_keep_blank_loop(Tail(items), seen, result)

dedupe_strings_keep_blank(items) == dedupe_strings_keep_blank_loop(items, {}, <<>>)

dedupe_strings(items) == dedupe_strings_loop(items, {}, <<>>)

\* The dict objects alive during one call, by reference: the heap is a
\* sequence of dicts, a reference is an index into it.
SelfRef == 1
NewRef == 2

CallHeap(s, n) == <<s.open_questions, n.open_questions>>

\* x itself instead of dict(x): no new object
dict_alias(heap, ref) == [heap |-> heap, ref |-> ref]

\* dict(x): a new dict object with the items of x
dict_copy(heap, ref) == [heap |-> Append(heap, heap[ref]), ref |-> Len(heap) + 1]

\* questions + merged_questions[category]
combined_reversed(existing, questions) == questions \o existing

\* merged_questions[category] + questions
combined(existing, questions) == existing \o questions

\* the questions every category of a dict holds, in the order of the dict
RECURSIVE AllQuestions(_)
AllQuestions(d) == IF d = <<>> THEN <<>> ELSE Head(d)[2] \o AllQuestions(Tail(d))

\* one seen set for all the categories: a question a category already holds
\* is taken for a duplicate in every other category
category_questions_seen_across(merged_questions, category, questions) ==
    LET others == SelectSeq(merged_questions, LAMBDA item : item[1] # category)
        seen == {StringKey(AllQuestions(others)[k]) : k \in 1..Len(AllQuestions(others))}
        own == IF DictHas(merged_questions, category)
               THEN combined(DictGet(merged_questions, category), questions)
               ELSE questions
    IN dedupe_strings_loop(own, seen, <<>>)

\* the list one pass of the loop stores under category
category_questions(merged_questions, category, questions) ==
    IF DictHas(merged_questions, category)
    THEN dedupe_strings(combined(DictGet(merged_questions, category), questions))
    ELSE dedupe_strings(questions)

\* for category, questions in new_state.open_questions.items(): ...
RECURSIVE merge_questions(_, _, _)
merge_questions(heap, mq, i) ==
    IF i > Len(heap[NewRef]) THEN heap
    ELSE LET category == heap[NewRef][i][1]
             questions == heap[NewRef][i][2]
             merged_questions == heap[mq]
             value == category_questions(merged_questions, category, questions)
         IN merge_questions([heap EXCEPT ![mq] = DictSet(merged_questions, category, value)],
                            mq, i + 1)

\* the new summary, empty or not
merged_summary_always_new(s, n) == n.summary

merged_summary(s, n) == IF n.summary # "" THEN n.summary ELSE s.summary

\* {**self.canvas, **new_state.canvas}: a key by key merge
RECURSIVE dict_update(_, _)
dict_update(d, e) ==
    IF e = <<>> THEN d
    ELSE dict_update(DictSet(d, Head(e)[1], Head(e)[2]), Tail(e))

merged_canvas_keywise(s, n) == dict_update(s.canvas, n.canvas)

merged_canvas(s, n) == IF n.canvas # <<>> THEN n.canvas ELSE s.canvas

\* the new timestamp only when it is not empty
merged_last_updated_if_set(s, n) ==
    IF n.last_updated # 0 THEN n.last_updated ELSE s.last_updated

merged_last_updated(s, n) == n.last_updated

\* self.merge_with(new_state): the returned state and the two arguments as
\* they are after the call
merge_with(s, n) ==
    LET c == dict_copy(CallHeap(s, n), SelfRef)
        heap == merge_questions(c.heap, c.ref, 1)
    IN [ret |->
          [summary |-> merged_summary(s, n),
           action_items |-> dedupe_list(s.action_items \o n.action_items),
           open_questions |-> heap[c.ref],
           decisions |-> dedupe_list(s.decisions \o n.decisions),
           functional_requirements |->
               dedupe_strings(s.functional_requirements \o n.functional_requirements),
           non_functional_requirements |->
               dedupe_strings(s.non_functional_requirements
                              \o n.non_functional_requirements),
           identified_risks |-> dedupe_list(s.identified_risks \o n.identified_risks),
           dependencies |-> dedupe_list(s.dependencies \o n.dependencies),
           metrics |-> dedupe_list(s.metrics \o n.metrics),
           costs |-> dedupe_list(s.costs \o n.costs),
           information_gaps |-> dedupe_strings(s.information_gaps \o n.information_gaps),
           canvas |-> merged_canvas(s, n),
           last_updated |-> merged_last_updated(s, n)],
        self_after |-> [s EXCEPT !.open_questions = heap[SelfRef]],
        new_after |-> [n EXCEPT !.open_questions = heap[NewRef]]]

----------------------------------------------------------------------------
(* Inputs of merge_with: pairs <<self, new_state>> of well-formed states *)

SeqsOfLen(S, k) == [1..k -> S]

\* pairs of lists over S holding at most MaxItems items together
ListPairs(S) ==
    UNION {SeqsOfLen(S, i) \X SeqsOfLen(S, j) :
              <<i, j>> \in {ij \in (0..MaxItems) \X (0..MaxItems) : ij[1] + ij[2] <= MaxItems}}

\* "", " ", "a", "A ", "b"
StrUniverse == {<<>>, <<" ">>, <<"a">>, <<"A", " ">>, <<"b">>}

\* " ", "q", " Q", "b"
QuestionUniverse == {<<" ">>, <<"q">>, <<" ", "Q">>, <<"b">>}

Categories == {"Frontend", "Backend"}

\* {"k": "x"}, {"k": "y"}, {"k": "x", "o": "y"}, {"o": "y", "k": "x"}
RecUniverse ==
    {<< <<<<"k">>, <<"x">>>> >>,
     << <<<<"k">>, <<"y">>>> >>,
     << <<<<"k">>, <<"x">>>>, <<<<"o">>, <<"y">>>> >>,
     << <<<<"o">>, <<"y">>>>, <<<<"k">>, <<"x">>>> >>}

\* the open_questions dicts that hold exactly t questions
QuestionDicts(t) ==
    (IF t = 0 THEN {<<>>} ELSE {})
    \cup {<< <<c, l>> >> : c \in Categories, l \in SeqsOfLen(QuestionUniverse, t)}
    \cup UNION {{<< <<cs[1], l1>>, <<cs[2], l2>> >> :
                    cs \in {cc \in Categories \X Categories : cc[1] # cc[2]},
                    l1 \in SeqsOfLen(QuestionUniverse, a),
                    l2 \in SeqsOfLen(QuestionUniverse, t - a)} : a \in 0..t}

QuestionDictPairs ==
    UNION {QuestionDicts(ij[1]) \X QuestionDicts(ij[2]) :
              ij \in {ij \in (0..MaxQuestions) \X (0..MaxQuestions) :
                          ij[1] + ij[2] <= MaxQuestions}}

Summaries == {"", " ", "Resumo A", "Resumo B"}

Canvases ==
    {<<>>,
     << <<"problem", "p1">> >>,
     << <<"problem", "p2">>, <<"goal", "g">> >>,
     << <<"goal", "g2">> >>}

Timestamps == 0..2

StringInputs ==
    {<<[EmptyState EXCEPT ![f] = p[1]], [EmptyState EXCEPT ![f] = p[2]]>> :
        f \in StringListFields, p \in ListPairs(StrUniverse)}

RecordInputs ==
    {<<[EmptyState EXCEPT ![f] = p[1]], [EmptyState EXCEPT ![f] = p[2]]>> :
        f \in RecordListFields, p \in ListPairs(RecUniverse)}

QuestionInputs ==
    {<<[EmptyState EXCEPT !.open_questions = p[1]],
       [EmptyState EXCEPT !.open_questions = p[2]]>> : p \in QuestionDictPairs}

ScalarStates ==
    {[EmptyState EXCEPT !.summary = s, !.canvas = c, !.last_updated = t] :
        s \in Summaries, c \in Canvases, t \in Timestamps}

ScalarInputs == ScalarStates \X ScalarStates

MergeInputs == StringInputs \cup RecordInputs \cup QuestionInputs \cup ScalarInputs

----------------------------------------------------------------------------
(* merge_with applied to arbitrary well-formed inputs *)

Init ==
    /\ \E in \in MergeInputs : self = in[1] /\ new_state = in[2]
    /\ merged = NoState
    /\ pc = "call"
    /\ state_json = NoState
    /\ status = "in_progress"
    /\ log_md = <<>>
    /\ clock = 0
    /\ result_data = NoData
    /\ JiraIdle
    /\ jira_export_md = NoFile
    /\ StorageIdle

\* merged = self.merge_with(new_state)
MergeWith ==
    /\ pc = "call"
    /\ LET r == merge_with(self, new_state)
       IN /\ merged' = r.ret
          /\ self' = r.self_after
          /\ new_state' = r.new_after
    /\ pc' = "returned"
    /\ UNCHANGED <<state_json, status, log_md, clock, result_data>>
    /\ UNCHANGED jira_vars
    /\ UNCHANGED storage_vars

Next == MergeWith

Spec == Init /\ [][Next]_vars

----------------------------------------------------------------------------
(* The entry flow on one activity: create_activity has run, then             *)
(* add_entry_flow and finalize_activity_flow are called in any order.        *)

\* state.model_dump_json(): the JSON document of a state
model_dump_json(state) ==
    [state EXCEPT !.open_questions = [type |-> "dict", value |-> state.open_questions]]

\* a validator that returns its data as it came
migrate_nothing(data) == data

\* a validator that also drops the categories without questions
migrate_dropping_empty(data) ==
    IF data.open_questions.type = "list"
    THEN [data EXCEPT !.open_questions =
              [type |-> "dict", value |-> << <<"Geral", data.open_questions.value>> >>]]
    ELSE [data EXCEPT !.open_questions.value =
              SelectSeq(data.open_questions.value, LAMBDA item : item[2] # <<>>)]

\* the model_validator that runs before construction
migrate_open_questions(data) ==
    IF data.open_questions.type = "list"
    THEN [data EXCEPT !.open_questions =
              [type |-> "dict", value |-> << <<"Geral", data.open_questions.value>> >>]]
    ELSE data

\* pydantic refuses data whose open_questions is not a dict
ValidationError == [error |-> "ValidationError"]

\* ActivityState(**data)
ActivityState(data) ==
    LET migrated == migrate_open_questions(data)
    IN IF migrated.open_questions.type # "dict" THEN ValidationError
       ELSE [migrated EXCEPT !.open_questions = migrated.open_questions.value]

\* storage.load_state(slug)
load_state(doc) == ActivityState(doc)

\* a parsed LLM answer with every field empty
EmptyResult == [EmptyState EXCEPT !.open_questions = [type |-> "dict", value |-> <<>>]]

\* a parsed LLM answer that names its costs cost_estimates, as StateUpdate does
CostEstimatesResult ==
    [k \in (DOMAIN EmptyResult \ {"costs"}) \cup {"cost_estimates"} |->
        IF k = "cost_estimates" THEN << << <<<<"k">>, <<"y">>>> >> >> ELSE EmptyResult[k]]

\* the results the extraction can parse out of an LLM answer: each fills one
\* part of the state document; open_questions comes as a dict or as a flat list
ExtractionResults ==
    {[EmptyResult EXCEPT !.functional_requirements = l] :
        l \in {<< <<"a">> >>, << <<"A", " ">> >>, << <<"b">>, <<" ">> >>}}
    \cup {[EmptyResult EXCEPT !.action_items = l] :
        l \in {<< << <<<<"k">>, <<"x">>>> >> >>,
                << << <<<<"o">>, <<"y">>>>, <<<<"k">>, <<"x">>>> >> >>}}
    \cup {[EmptyResult EXCEPT !.open_questions = [type |-> "dict", value |-> d]] :
        d \in {<< <<"Frontend", << <<"q">> >> >> >>,
                << <<"Frontend", << <<" ", "Q">>, <<"b">> >> >> >>,
                << <<"Backend", << <<"q">>, <<" ">> >> >> >>,
                << <<"Geral", <<>> >>, <<"Backend", << <<"b">> >> >> >>}}
    \cup {[EmptyResult EXCEPT !.open_questions = [type |-> "list", value |-> l]] :
        l \in {<< <<"q">>, <<"b">> >>}}
    \cup {[EmptyResult EXCEPT !.summary = "Resumo B", !.canvas = << <<"goal", "g2">> >>],
           CostEstimatesResult,
           EmptyResult}

Descriptions == {"", "Resumo A"}

\* how the extraction of process_entry ends
ExtractionOutcomes ==
    {"unavailable", "no_llm", "empty_response", "parse_error", "validation_error",
     "exception", "ok"}

\* result["costs"] = result.pop("cost_estimates")
rename_cost_estimates(result) ==
    IF "cost_estimates" \in DOMAIN result
    THEN [k \in (DOMAIN result \ {"cost_estimates"}) \cup {"costs"} |->
             IF k = "costs" THEN result.cost_estimates ELSE result[k]]
    ELSE result

\* the candidate itself, not merged into the current state
process_entry_unmerged(current_state, updated_state) ==
    [ret |-> updated_state, self_after |-> current_state, new_after |-> updated_state]

\* what process_entry returns once the candidate is built: the merge of the
\* current state with it
process_entry(current_state, updated_state) == merge_with(current_state, updated_state)

\* the title of the activity
Title == <<"L", "o", "g", "i", "n">>

\* jira_export.md as create_activity writes it
jira_placeholder(title) ==
    <<"#", " ", "J", "i", "r", "a", " ", "E", "x", "p", "o", "r", "t", ":", " ">>
    \o title
    \o <<"\n", "\n", "_", "N", "o", "t", " ", "y", "e", "t", " ", "g", "e", "n", "e", "r",
         "a", "t", "e", "d", "_", "\n">>

InitFlow ==
    /\ \E description \in Descriptions :
          state_json = model_dump_json([EmptyState EXCEPT !.summary = description,
                                                          !.last_updated = 1])
    /\ status = "in_progress"
    /\ log_md = <<>>
    /\ clock = 1
    /\ self = EmptyState
    /\ new_state = EmptyState
    /\ merged = NoState
    /\ pc = "menu"
    /\ result_data = NoData
    /\ JiraIdle
    /\ jira_export_md = jira_placeholder(Title)
    /\ StorageIdle

\* why add_entry_flow returns before it creates an entry, "none" when it does not
early_return(is_finalized, input_method, content, entry_type) ==
    IF is_finalized THEN "rejected"
    ELSE IF input_method = "Cancelar" THEN "cancelled"
    ELSE IF content = "" THEN "no_content"
    ELSE IF entry_type = "none" THEN "no_type"
    ELSE "none"

\* the same for the activity of the flow
EarlyReturn(input_method, content, entry_type) ==
    early_return(status = "finalized", input_method, content, entry_type)

\* add_entry_flow(slug), returning before an entry is created
AddEntryReturnsEarly ==
    /\ \E input_method \in {"terminal", "editor", "Cancelar"},
          content \in {"", "texto"},
          entry_type \in {"none", "note"} :
          /\ EarlyReturn(input_method, content, entry_type) # "none"
          /\ pc' = EarlyReturn(input_method, content, entry_type)
    /\ UNCHANGED <<self, new_state, merged, state_json, status, log_md, clock, result_data>>
    /\ UNCHANGED jira_vars
    /\ UNCHANGED storage_vars

\* open(log_md, "w"): the file is rewritten with the entry alone
append_to_log_rewriting(log, entry) == <<entry>>

\* storage.append_to_log(slug, entry): open(log_md, "a")
append_to_log(log, entry) == Append(log, entry)

\* an empty response is not taken for a failure
extraction_failed_unless_empty(outcome, updated) ==
    outcome \notin {"ok", "empty_response"} \/ updated = ValidationError

\* process_entry returns None: one of its early returns or except clauses ran
extraction_failed(outcome, updated) == outcome # "ok" \/ updated = ValidationError

\* add_entry_flow(slug), creating an entry: append it to the log, extract,
\* merge and save
AddEntry ==
    /\ EarlyReturn("terminal", "texto", "note") = "none"
    /\ clock + 2 <= MaxClock
    /\ \E outcome \in ExtractionOutcomes, result \in ExtractionResults :
          LET entry == [entry_type |-> "note", content |-> "texto", timestamp |-> clock + 1]
              state == load_state(state_json)
              updated == ActivityState(rename_cost_estimates(result))
          IN /\ log_md' = append_to_log(log_md, entry)
             /\ result_data' = IF outcome = "ok" THEN result ELSE NoData
             /\ IF ~extraction_failed(outcome, updated)
                THEN LET updated_state == [updated EXCEPT !.last_updated = clock + 2]
                         r == process_entry(state, updated_state)
                     IN /\ self' = r.self_after
                        /\ new_state' = r.new_after
                        /\ merged' = r.ret
                        /\ state_json' = model_dump_json(r.ret)
                        /\ clock' = clock + 2
                        /\ pc' = "saved"
                ELSE /\ clock' = clock + 1
                     /\ pc' = "skipped"
                     /\ UNCHANGED <<self, new_state, merged, state_json>>
    /\ UNCHANGED status
    /\ UNCHANGED jira_vars
    /\ UNCHANGED storage_vars

\* finalize_activity_flow(slug)
FinalizeActivity ==
    /\ clock + 1 <= MaxClock
    /\ \E confirm \in BOOLEAN :
          IF confirm
          THEN /\ status' = "finalized"
               /\ clock' = clock + 1
               /\ pc' = "finalized"
          ELSE /\ pc' = "not_confirmed"
               /\ UNCHANGED <<status, clock>>
    /\ UNCHANGED <<self, new_state, merged, state_json, log_md, result_data>>
    /\ UNCHANGED jira_vars
    /\ UNCHANGED storage_vars

NextFlow == AddEntryReturnsEarly \/ AddEntry \/ FinalizeActivity

SpecFlow == InitFlow /\ [][NextFlow]_vars

----------------------------------------------------------------------------
(* Vocabulary of the properties *)

\* a string after lower-casing and trimming
Normalized(str) == Strip(Lower(str))

Blank(str) == Normalized(str) = <<>>

NoDuplicateStrings(l) ==
    \A i, j \in DOMAIN l : i # j => Normalized(l[i]) # Normalized(l[j])

NoBlankStrings(l) == \A i \in DOMAIN l : ~Blank(l[i])

\* the set of key-value pairs of a record
PairSet(rec) == {rec[i] : i \in DOMAIN rec}

\* the items of l at the indices idx, in the order of l
RECURSIVE Pick(_, _)
Pick(l, idx) ==
    IF l = <<>> THEN <<>>
    ELSE LET n == Len(l)
         IN IF n \in idx
            THEN Append(Pick(SubSeq(l, 1, n - 1), idx), l[n])
            ELSE Pick(SubSeq(l, 1, n - 1), idx)

\* the indices of l whose item has no equal (under K) item before it
FirstOccurrences(l, K(_)) ==
    {i \in DOMAIN l : \A j \in 1..(i - 1) : K(l[j]) # K(l[i])}

\* sub is a subsequence of l
RECURSIVE IsSubsequence(_, _)
IsSubsequence(sub, l) ==
    IF sub = <<>> THEN TRUE
    ELSE IF l = <<>> THEN FALSE
    ELSE IF Head(sub) = Head(l) THEN IsSubsequence(Tail(sub), Tail(l))
    ELSE IsSubsequence(sub, Tail(l))

\* the questions of a category, empty when the category is absent
QuestionsOf(d, category) == IF DictHas(d, category) THEN DictGet(d, category) ELSE <<>>

Returned == pc = "returned"

----------------------------------------------------------------------------
(* Properties of merge_with *)

\* C1: every category list of merge(base, incoming).open_questions is
\* deduplicated (no two entries equal after lower-casing and trimming, no
\* blank entry), also for categories present in only one of the inputs.
C1_QuestionsDeduplicated ==
    Returned =>
        \A i \in DOMAIN merged.open_questions :
            /\ NoDuplicateStrings(merged.open_questions[i][2])
            /\ NoBlankStrings(merged.open_questions[i][2])

\* C2: every string-list field of merge(a, b) holds no two entries equal
\* after lower-casing and trimming, and no entry that is blank after trimming.
C2_StringListsDeduplicated ==
    Returned =>
        \A f \in StringListFields :
            NoDuplicateStrings(merged[f]) /\ NoBlankStrings(merged[f])

\* a string of self and a differently written, equal-after-normalization
\* string of new_state met in one string-list field
C2_Witness ==
    /\ Returned
    /\ \E f \in StringListFields :
          /\ \E i \in DOMAIN self[f], j \in DOMAIN new_state[f] :
                /\ self[f][i] # new_state[f][j]
                /\ ~Blank(self[f][i])
                /\ Normalized(self[f][i]) = Normalized(new_state[f][j])
          /\ \E i \in DOMAIN new_state[f] : Blank(new_state[f][i])
          /\ Len(merged[f]) = 1

\* C3: every record-list field of merge(a, b) holds no two records with the
\* same set of key-value pairs; records are duplicates exactly when their
\* pair sets are identical: key order is irrelevant, and a record with an
\* extra or missing key stays in the result as a distinct record.
C3_RecordListsDeduplicated ==
    Returned =>
        \A f \in RecordListFields :
            /\ \A i, j \in DOMAIN merged[f] :
                  i # j => PairSet(merged[f][i]) # PairSet(merged[f][j])
            /\ \A i \in DOMAIN (self[f] \o new_state[f]) :
                  \E j \in DOMAIN merged[f] :
                      PairSet(merged[f][j]) = PairSet((self[f] \o new_state[f])[i])

\* the same pairs in two key orders, and a record with one key less, met in
\* one record-list field
C3_Witness ==
    /\ Returned
    /\ \E f \in RecordListFields :
          LET all == self[f] \o new_state[f]
          IN /\ \E i, j \in DOMAIN all :
                   all[i] # all[j] /\ PairSet(all[i]) = PairSet(all[j])
             /\ \E i, j \in DOMAIN merged[f] :
                   /\ PairSet(merged[f][i]) # PairSet(merged[f][j])
                   /\ PairSet(merged[f][i]) \subseteq PairSet(merged[f][j])

\* C5: the category keys of merge(a, b).open_questions are exactly the keys
\* of a united with the keys of b, and for every category the result list
\* holds every non-blank question of a and of b (up to case and surrounding
\* whitespace, as first written) in first-seen order: it is a subsequence of
\* a's list followed by b's list that keeps the first occurrence of each.
C5_QuestionsUnionInOrder ==
    Returned =>
        /\ DictKeys(merged.open_questions)
              = DictKeys(self.open_questions) \cup DictKeys(new_state.open_questions)
        /\ \A category \in DictKeys(merged.open_questions) :
              LET all == QuestionsOf(self.open_questions, category)
                           \o QuestionsOf(new_state.open_questions, category)
                  result == DictGet(merged.open_questions, category)
              IN /\ IsSubsequence(result, all)
                 /\ \A i \in FirstOccurrences(all, Normalized) :
                       ~Blank(all[i]) =>
                          \E j \in DOMAIN result :
                              /\ result[j] = all[i]
                              /\ \A k \in 1..(j - 1) :
                                    Normalized(result[k]) # Normalized(all[i])

\* a category held by both inputs with different questions, next to a
\* category held by new_state only
C5_Witness ==
    /\ Returned
    /\ \E category \in DictKeys(self.open_questions)
                          \cap DictKeys(new_state.open_questions) :
          /\ Len(DictGet(merged.open_questions, category)) = 2
          /\ DictGet(merged.open_questions, category)
                = DictGet(self.open_questions, category)
                    \o DictGet(new_state.open_questions, category)
    /\ DictKeys(new_state.open_questions) \ DictKeys(self.open_questions) # {}

\* C6 as stated: every string-list and record-list field of the result equals
\* the first-occurrence filter of base ++ incoming.
C6_FirstOccurrenceFilter ==
    Returned =>
        /\ \A f \in StringListFields :
              LET all == self[f] \o new_state[f]
              IN merged[f] = Pick(all, FirstOccurrences(all, Normalized))
        /\ \A f \in RecordListFields :
              LET all == self[f] \o new_state[f]
              IN merged[f] = Pick(all, FirstOccurrences(all, PairSet))

\* C6 amended: every record-list field of the result equals the
\* first-occurrence filter of base ++ incoming, and every string-list field
\* equals the first-occurrence filter of the entries of base ++ incoming that
\* are not blank after trimming (blank entries are dropped, first or not);
\* retained items keep their original text and their relative order.
C6_FirstOccurrenceFilterNonBlank ==
    Returned =>
        /\ \A f \in StringListFields :
              LET all == self[f] \o new_state[f]
              IN merged[f] = Pick(all, {i \in FirstOccurrences(all, Normalized) :
                                           ~Blank(all[i])})
        /\ \A f \in RecordListFields :
              LET all == self[f] \o new_state[f]
              IN merged[f] = Pick(all, FirstOccurrences(all, PairSet))

\* a string-list field met a blank entry first, then a string and a later,
\* differently written duplicate of it: only the first writing is kept
C6_Witness ==
    /\ Returned
    /\ \E f \in StringListFields :
          LET all == self[f] \o new_state[f]
          IN /\ Len(all) = 3
             /\ Blank(all[1])
             /\ all[2] # all[3]
             /\ Normalized(all[2]) = Normalized(all[3])
             /\ merged[f] = <<all[2]>>

\* C7: merge(a, b).last_updated equals b.last_updated, whatever
\* a.last_updated is, also when b.last_updated is empty or older than a's.
C7_LastUpdatedIncoming ==
    Returned => merged.last_updated = new_state.last_updated

\* the incoming timestamp is empty and the base's is not
C7_Witness ==
    Returned /\ new_state.last_updated = 0 /\ self.last_updated > 0

\* C8: merge(a, b).summary is b.summary when b.summary is non-empty and
\* a.summary when b.summary is the empty string.
C8_SummaryLatestNonEmpty ==
    Returned =>
        /\ new_state.summary # "" => merged.summary = new_state.summary
        /\ new_state.summary = "" => merged.summary = self.summary

\* an empty incoming summary met an existing summary
C8_Witness ==
    Returned /\ new_state.summary = "" /\ self.summary = "Resumo A"

\* C9: merge(a, b).canvas is b.canvas when b.canvas is non-empty and a.canvas
\* when b.canvas is empty: replaced wholesale, never merged key by key.
C9_CanvasLatestNonEmpty ==
    Returned =>
        /\ new_state.canvas # <<>> => merged.canvas = new_state.canvas
        /\ new_state.canvas = <<>> => merged.canvas = self.canvas

\* two non-empty canvases with different keys met
C9_Witness ==
    /\ Returned
    /\ new_state.canvas # <<>>
    /\ DictKeys(self.canvas) \ DictKeys(new_state.canvas) # {}

\* C10: merge_with leaves both inputs as they were before the call (every
\* field, each category list of open_questions included) and touches no
\* state other than its arguments and the state it returns.
C10_InputsUnchanged ==
    [][pc = "call" =>
          /\ self' = self
          /\ new_state' = new_state
          /\ UNCHANGED <<state_json, status, log_md, clock, result_data>>]_vars

\* the call wrote a merged list into a category that self holds too
C10_Witness ==
    /\ Returned
    /\ \E category \in DictKeys(self.open_questions)
                          \cap DictKeys(new_state.open_questions) :
          DictGet(merged.open_questions, category)
              # DictGet(self.open_questions, category)

----------------------------------------------------------------------------
(* Properties of the entry flow *)

\* every record, every non-blank string and every non-blank question of the
\* state before is in the state after, and every category key
Preserved(before, after) ==
    /\ \A f \in RecordListFields :
          \A i \in DOMAIN before[f] : \E j \in DOMAIN after[f] : after[f][j] = before[f][i]
    /\ \A f \in StringListFields :
          \A i \in DOMAIN before[f] :
              ~Blank(before[f][i]) =>
                  \E j \in DOMAIN after[f] :
                      Normalized(after[f][j]) = Normalized(before[f][i])
    /\ DictKeys(before.open_questions) \subseteq DictKeys(after.open_questions)
    /\ \A category \in DictKeys(before.open_questions) :
          LET b == DictGet(before.open_questions, category)
              a == QuestionsOf(after.open_questions, category)
          IN \A i \in DOMAIN b :
                 ~Blank(b[i]) =>
                     \E j \in DOMAIN a : Normalized(a[j]) = Normalized(b[i])

\* C4: over any sequence of processed entries, what the persisted state held
\* at one step (records, non-blank strings and questions up to case and
\* surrounding whitespace, category keys) is still in it at every later step.
C4_NothingLost ==
    [][Preserved(load_state(state_json), load_state(state_json'))]_vars

\* a second entry was merged and the persisted state still holds a
\* requirement, a record or a question the second candidate did not bring
C4_Witness ==
    /\ pc = "saved"
    /\ Len(log_md) = 2
    /\ LET state == load_state(state_json)
       IN \/ Len(state.functional_requirements) > Len(new_state.functional_requirements)
          \/ Len(state.action_items) > Len(new_state.action_items)
          \/ DictKeys(state.open_questions) \ DictKeys(new_state.open_questions) # {}

\* ---------------------------------------------------------------------
\* Normalization of open_questions at construction (state.py 66-82)
\* ---------------------------------------------------------------------

\* the open_questions mapping a parsed result must be constructed with
ExpectedQuestions(data) ==
    IF data.open_questions.type = "list"
    THEN << <<"Geral", data.open_questions.value>> >>
    ELSE data.open_questions.value

\* C11: every state built from a parsed result holds open_questions as a
\* mapping: a flat list is filed whole and in order under "Geral", a mapping is
\* taken as it is, the construction never fails on the list form, and the
\* stored document always carries a mapping.
C11_OpenQuestionsIsMapping ==
    /\ state_json.open_questions.type = "dict"
    /\ (pc \in {"saved", "skipped"} /\ result_data # NoData) =>
          /\ pc = "saved"
          /\ migrate_open_questions(result_data).open_questions.type = "dict"
          /\ new_state.open_questions = ExpectedQuestions(result_data)

\* a legacy flat list was given and the state was built and merged
C11_Witness ==
    /\ pc = "saved"
    /\ result_data # NoData
    /\ result_data.open_questions.type = "list"
    /\ Len(result_data.open_questions.value) = 2
    /\ new_state.open_questions = << <<"Geral", result_data.open_questions.value>> >>
    /\ DictHas(merged.open_questions, "Geral")

\* C12: normalizing is idempotent: a result already normalized is returned
\* unchanged, a mapping passes through with its empty categories, and a
\* constructed state dumped and constructed again is the same state.
C12_NormalizationIdempotent ==
    (pc = "saved" /\ result_data # NoData) =>
        LET once == migrate_open_questions(result_data)
        IN /\ migrate_open_questions(once) = once
           /\ result_data.open_questions.type = "dict" =>
                 /\ once = result_data
                 /\ new_state.open_questions = result_data.open_questions.value
           /\ ActivityState(model_dump_json(new_state)) = new_state
           /\ ActivityState(model_dump_json(merged)) = merged

\* a mapping with a category without questions went through construction
C12_Witness ==
    /\ pc = "saved"
    /\ result_data # NoData
    /\ result_data.open_questions.type = "dict"
    /\ DictHas(result_data.open_questions.value, "Geral")
    /\ DictGet(result_data.open_questions.value, "Geral") = <<>>
    /\ DictHas(new_state.open_questions, "Geral")
    /\ DictGet(new_state.open_questions, "Geral") = <<>>

\* ---------------------------------------------------------------------
\* validate_jira_structure (llm/processor_langchain.py 360-521)
\* ---------------------------------------------------------------------

\* Body(value), with the value computed once before Body takes it: the
\* positions and counts below are found once and then used several times
Bind(value, Body(_)) == CHOOSE result \in {Body(v) : v \in {value}} : TRUE

\* the index after the longest run of characters of cs that starts at s[i]
RECURSIVE RunEnd(_, _, _)
RunEnd(s, i, cs) ==
    IF i <= Len(s) /\ s[i] \in cs THEN RunEnd(s, i + 1, cs) ELSE i

\* the index after the word w if it stands at s[i], 0 otherwise
Literal(s, i, w) ==
    IF i >= 1 /\ i + Len(w) - 1 <= Len(s) /\ \A k \in 1..Len(w) : s[i + k - 1] = w[k]
    THEN i + Len(w)
    ELSE 0

\* the index after the first word of ws, in the order of the alternation,
\* that stands at s[i], 0 if none does
RECURSIVE Alternation(_, _, _)
Alternation(s, i, ws) ==
    IF ws = <<>> THEN 0
    ELSE IF Literal(s, i, Head(ws)) # 0 THEN Literal(s, i, Head(ws))
    ELSE Alternation(s, i, Tail(ws))

\* keyword in content
Contains(s, w) == \E i \in 1..Len(s) : s[i] = w[1] /\ Literal(s, i, w) # 0

\* any(keyword in content for keyword in keywords): some keyword stands at
\* some index, which then holds the first character of a keyword
ContainsAny(s, keywords) ==
    Bind({w[1] : w \in keywords}, LAMBDA firsts :
    \E i \in 1..Len(s) :
        s[i] \in firsts /\ \E w \in keywords : s[i] = w[1] /\ Literal(s, i, w) # 0)

\* a match of  #{1,3}\s*(?:subtarefa\s+)?<area>(?:\s+\d+)?  at s[i]: the
\* index after it, 0 if there is none
task_pattern(s, i, area) ==
    Bind(RunEnd(s, i, {"#"}), LAMBDA hashes :
    IF hashes = i \/ hashes - i > 3 THEN 0 ELSE
    Bind(RunEnd(s, hashes, Whitespace), LAMBDA spaces :
    Bind(Literal(s, spaces, <<"s", "u", "b", "t", "a", "r", "e", "f", "a">>),
         LAMBDA subtarefa :
    Bind(IF subtarefa # 0 /\ RunEnd(s, subtarefa, Whitespace) > subtarefa
         THEN RunEnd(s, subtarefa, Whitespace)
         ELSE spaces, LAMBDA prefix :
    Bind(Literal(s, prefix, area), LAMBDA word :
    IF word = 0 THEN 0 ELSE
    Bind(RunEnd(s, word, Whitespace), LAMBDA gap :
    Bind(RunEnd(s, gap, Digits), LAMBDA number :
    IF gap > word /\ number > gap THEN number ELSE word)))))))

\* the least element of a set of numbers that is not empty
Least(S) == CHOOSE n \in S : \A m \in S : n <= m

\* the indices at which the task pattern of the area matches
task_matches(s, area) == {j \in 1..Len(s) : s[j] = "#" /\ task_pattern(s, j, area) # 0}

\* the number of matches re.findall takes from s[i] on, out of those that
\* start at the indices starts: the leftmost one, then the search goes on
\* after it, so the matches do not overlap
RECURSIVE findall_tasks_from(_, _, _, _)
findall_tasks_from(s, starts, i, area) ==
    Bind({j \in starts : j >= i}, LAMBDA rest :
    IF rest = {} THEN 0 ELSE
    Bind(task_pattern(s, Least(rest), area), LAMBDA next :
    1 + findall_tasks_from(s, starts, next, area)))

\* len(re.findall(pattern, content))
findall_tasks(s, i, area) ==
    Bind(task_matches(s, area), LAMBDA starts : findall_tasks_from(s, starts, i, area))

\* a counter that takes every header of either area for a backend task
backend_count_any_area(content_lower) ==
    findall_tasks(content_lower, 1, <<"b", "a", "c", "k", "e", "n", "d">>)
    + findall_tasks(content_lower, 1, <<"f", "r", "o", "n", "t", "e", "n", "d">>)

backend_count(content_lower) == findall_tasks(content_lower, 1, <<"b", "a", "c", "k", "e", "n", "d">>)

frontend_count(content_lower) == findall_tasks(content_lower, 1, <<"f", "r", "o", "n", "t", "e", "n", "d">>)

\* the words that count as a mention of unit tests
unit_test_keywords ==
    {<<"u", "n", "i", "t", " ", "t", "e", "s", "t">>,
     <<"t", "e", "s", "t", "e", " ", "u", "n", "i", "t", "á", "r", "i", "o">>,
     <<"t", "e", "s", "t", "e", "s", " ", "u", "n", "i", "t", "á", "r", "i", "o", "s">>,
     <<"u", "n", "i", "t", "t", "e", "s", "t">>,
     <<"j", "e", "s", "t">>,
     <<"p", "y", "t", "e", "s", "t">>,
     <<"t", "d", "d">>,
     <<"t", "e", "s", "t", "-", "d", "r", "i", "v", "e", "n">>}

\* the words that count as an end-to-end section
e2e_keywords ==
    {<<"e", "2", "e">>,
     <<"e", "n", "d", "-", "t", "o", "-", "e", "n", "d">>,
     <<"t", "e", "s", "t", "e", " ", "e", "2", "e">>,
     <<"t", "e", "s", "t", "e", "s", " ", "e", "2", "e">>,
     <<"t", "e", "s", "t", " ", "e", "2", "e">>}

\* the words that count as dependency or workflow information
dependency_keywords ==
    {<<"d", "e", "p", "e", "n", "d", "ê", "n", "c", "i", "a">>,
     <<"d", "e", "p", "e", "n", "d", "ê", "n", "c", "i", "a", "s">>,
     <<"d", "e", "p", "e", "n", "d", "e", "n", "c", "y">>,
     <<"d", "e", "p", "e", "n", "d", "e", "n", "c", "i", "e", "s">>,
     <<"d", "e", "p", "e", "n", "d", "s", " ", "o", "n">>,
     <<"d", "e", "p", "e", "n", "d", "e", " ", "d", "e">>,
     <<"w", "o", "r", "k", "f", "l", "o", "w">>,
     <<"f", "l", "u", "x", "o">>,
     <<"→">>,
     <<"-", "-", ">">>,
     <<"a", "f", "t", "e", "r">>,
     <<"a", "p", "ó", "s">>,
     <<"b", "e", "f", "o", "r", "e">>,
     <<"a", "n", "t", "e", "s">>}

\* a match of  (\d+(?:\.\d+)?)\s*(?:week|semana|wk)  at s[i]: the index after
\* the match and the index after group 1, or end = 0 if there is none
week_pattern(s, i) ==
    Bind(RunEnd(s, i, Digits), LAMBDA whole :
    IF whole = i THEN [end |-> 0, group |-> i] ELSE
    Bind(IF whole <= Len(s) /\ s[whole] = "." THEN RunEnd(s, whole + 1, Digits) ELSE 0,
         LAMBDA fraction :
    Bind(IF fraction > whole + 1 THEN fraction ELSE whole, LAMBDA number :
    Bind(RunEnd(s, number, Whitespace), LAMBDA unit :
    [end |-> Alternation(s, unit, <<<<"w", "e", "e", "k">>, <<"s", "e", "m", "a", "n", "a">>,
                                  <<"w", "k">>>>),
     group |-> number]))))

\* the indices at which the week pattern matches
week_matches(s) == {j \in 1..Len(s) : s[j] \in Digits /\ week_pattern(s, j).end # 0}

\* the texts of group 1 of the matches re.findall takes from s[i] on, out of
\* those that start at the indices starts
RECURSIVE findall_weeks_from(_, _, _)
findall_weeks_from(s, starts, i) ==
    Bind({j \in starts : j >= i}, LAMBDA rest :
    IF rest = {} THEN <<>> ELSE
    Bind(Least(rest), LAMBDA start :
    Bind(week_pattern(s, start), LAMBDA m :
    <<SubSeq(s, start, m.group - 1)>> \o findall_weeks_from(s, starts, m.end))))

\* re.findall(week_pattern, content)
findall_weeks(s, i) ==
    Bind(week_matches(s), LAMBDA starts : findall_weeks_from(s, starts, i))

\* re.search of  \d+-\d+\s*(?:week|semana)
vague_range(s) ==
    \E i \in 1..Len(s) :
        /\ s[i] \in Digits
        /\ Bind(RunEnd(s, i, Digits), LAMBDA low :
           /\ low <= Len(s)
           /\ s[low] = "-"
           /\ Bind(RunEnd(s, low + 1, Digits), LAMBDA high :
              /\ high > low + 1
              /\ Bind(RunEnd(s, high, Whitespace), LAMBDA unit :
                 Alternation(s, unit, <<<<"w", "e", "e", "k">>,
                                        <<"s", "e", "m", "a", "n", "a">>>>) # 0)))

\* re.search of  <word>\s+\d+
vague_word(s, w) ==
    \E i \in 1..Len(s) :
        /\ s[i] = w[1]
        /\ Literal(s, i, w) # 0
        /\ Bind(RunEnd(s, i + Len(w), Whitespace), LAMBDA gap :
           gap > i + Len(w) /\ RunEnd(s, gap, Digits) > gap)

\* any(re.search(pattern, content) for pattern in vague_patterns)
has_vague_estimates(s) ==
    \/ vague_range(s)
    \/ vague_word(s, <<"a", "r", "o", "u", "n", "d">>)
    \/ vague_word(s, <<"a", "p", "p", "r", "o", "x", "i", "m", "a", "t", "e", "l", "y">>)
    \/ vague_word(s, <<"c", "e", "r", "c", "a", " ", "d", "e">>)

\* the number a run of decimal digits writes
DigitsValue(ds) ==
    LET value[k \in 0..Len(ds)] ==
            IF k = 0 THEN 0 ELSE 10 * value[k - 1] + (CodePoint[ds[k]] - 48)
    IN value[Len(ds)]

RECURSIVE Power10(_)
Power10(n) == IF n = 0 THEN 1 ELSE 10 * Power10(n - 1)

\* float(est) for a text matched by \d+(?:\.\d+)?, kept exact as
\* num / 10^exp (the texts of the model have few enough digits for the
\* float to compare as the decimal does)
float(est) ==
    Bind(RunEnd(est, 1, Digits), LAMBDA whole :
    IF whole > Len(est)
    THEN [num |-> DigitsValue(est), exp |-> 0]
    ELSE [num |-> DigitsValue(SubSeq(est, 1, whole - 1) \o SubSeq(est, whole + 1, Len(est))),
          exp |-> Len(est) - whole])

\* x < y on floats
FloatLess(x, y) == x.num * Power10(y.exp) < y.num * Power10(x.exp)

\* min(numeric_estimates), for a list that is not empty
min(numeric_estimates) ==
    LET i == CHOOSE k \in DOMAIN numeric_estimates :
                 \A j \in DOMAIN numeric_estimates :
                     ~FloatLess(numeric_estimates[j], numeric_estimates[k])
    IN numeric_estimates[i]

\* the characters of s in one string
Join(s) ==
    LET joined[k \in 0..Len(s)] == IF k = 0 THEN "" ELSE joined[k - 1] \o s[k]
    IN joined[Len(s)]

\* the digits of n, as many as width asks for
RECURSIVE DigitsOf(_, _)
DigitsOf(n, width) ==
    IF width = 0 THEN <<>>
    ELSE DigitsOf(n \div 10, width - 1)
         \o <<CHOOSE d \in Digits : CodePoint[d] = 48 + (n % 10)>>

\* the index of the last character of s that is not c, 0 if there is none
LastOther(s, c) ==
    LET last[k \in 0..Len(s)] == IF k = 0 \/ s[k] # c THEN k ELSE last[k - 1]
    IN last[Len(s)]

\* f"{x}" for a float: the whole part, a point, and the fraction without its
\* trailing zeros ("0" if nothing is left)
FloatFormat(x) ==
    Bind(DigitsOf(x.num % Power10(x.exp), x.exp), LAMBDA fraction :
    Bind(SubSeq(fraction, 1, LastOther(fraction, "0")), LAMBDA kept :
    ToString(x.num \div Power10(x.exp)) \o "." \o (IF kept = <<>> THEN "0" ELSE Join(kept))))

\* the warning of check 1 or 2
TaskCountWarning(area, count) ==
    area \o " tasks count (" \o ToString(count)
    \o ") outside recommended range of 2-7. "
    \o "Consider breaking down into multiple granular tasks."

UnitTestWarning ==
    "Unit tests not explicitly mentioned in implementation tasks. "
    \o "Each task should include its unit tests following TDD principles."

E2EWarning ==
    "No dedicated E2E test section found. "
    \o "Consider adding separate E2E test tasks covering main user flows."

VagueWarning ==
    "Week estimates should be exact numbers (e.g., '2.5 weeks'), "
    \o "not ranges or approximations."

MinimumWarning(min_estimate) ==
    "Found task with estimate below minimum 0.5 weeks (" \o FloatFormat(min_estimate)
    \o " weeks). All tasks should be at least 0.5 weeks."

DependencyWarning ==
    "No dependency or workflow information found. "
    \o "Consider specifying task dependencies and execution order."

NoTasksWarning == "No backend or frontend tasks found. Content appears incomplete."

NoEstimatesWarning == "No week estimates found. All tasks must have time estimates."

\* the list with the warning appended when the condition holds
AppendIf(warnings, condition, warning) ==
    IF condition THEN Append(warnings, warning) ELSE warnings

\* the warnings list at the return of the try block, in the order of the
\* appends, for the counts and the estimates the checks found
warnings_list(content_lower, backend, frontend, week_estimates) ==
    LET w1 == AppendIf(<<>>, backend < 2 \/ backend > 7,
                       TaskCountWarning("Backend", backend))
        w2 == AppendIf(w1, frontend < 2 \/ frontend > 7,
                       TaskCountWarning("Frontend", frontend))
        w3 == AppendIf(w2, /\ ~ContainsAny(content_lower, unit_test_keywords)
                           /\ (backend > 0 \/ frontend > 0),
                       UnitTestWarning)
        w4 == AppendIf(w3, ~ContainsAny(content_lower, e2e_keywords), E2EWarning)
        w5 == AppendIf(w4, has_vague_estimates(content_lower), VagueWarning)
        w6 == IF week_estimates = <<>> THEN w5 ELSE
              Bind(min([i \in DOMAIN week_estimates |-> float(week_estimates[i])]),
                   LAMBDA min_estimate :
                       AppendIf(w5, FloatLess(min_estimate, [num |-> 5, exp |-> 1]),
                                MinimumWarning(min_estimate)))
        w7 == AppendIf(w6, /\ ~ContainsAny(content_lower, dependency_keywords)
                           /\ (backend > 1 \/ frontend > 1),
                       DependencyWarning)
        w8 == AppendIf(w7, backend = 0 /\ frontend = 0, NoTasksWarning)
    IN AppendIf(w8, (backend > 0 \/ frontend > 0) /\ Len(week_estimates) = 0,
                NoEstimatesWarning)

\* a verdict that rejects a count of 7 as well
is_valid_below_seven(backend, frontend, week_estimates) ==
    /\ ~(backend = 0 /\ frontend = 0)
    /\ backend # 1
    /\ frontend # 1
    /\ ~(backend >= 7)
    /\ ~(frontend >= 7)
    /\ ~((backend > 0 \/ frontend > 0) /\ Len(week_estimates) = 0)

\* a verdict that accepts a single task on a side
is_valid_single_task(backend, frontend, week_estimates) ==
    /\ ~(backend = 0 /\ frontend = 0)
    /\ ~(backend > 7)
    /\ ~(frontend > 7)
    /\ ~((backend > 0 \/ frontend > 0) /\ Len(week_estimates) = 0)

\* a verdict that asks for tasks on both sides
is_valid_both_sides(backend, frontend, week_estimates) ==
    /\ ~(backend = 0 \/ frontend = 0)
    /\ backend # 1
    /\ frontend # 1
    /\ ~(backend > 7)
    /\ ~(frontend > 7)
    /\ ~((backend > 0 \/ frontend > 0) /\ Len(week_estimates) = 0)

\* a verdict that does not look at the estimates
is_valid_without_estimates(backend, frontend, week_estimates) ==
    /\ ~(backend = 0 /\ frontend = 0)
    /\ backend # 1
    /\ frontend # 1
    /\ ~(backend > 7)
    /\ ~(frontend > 7)

\* is_valid at the return of the try block: True unless one of the six
\* assignments of False ran
is_valid(backend, frontend, week_estimates) ==
    /\ ~(backend = 0 /\ frontend = 0)
    /\ ~(backend = 1)
    /\ ~(frontend = 1)
    /\ ~(backend > 7)
    /\ ~(frontend > 7)
    /\ ~((backend > 0 \/ frontend > 0) /\ Len(week_estimates) = 0)

\* checks whose verdict also falls on a vague estimate
structural_checks_vague_fatal(content_lower) ==
    Bind(backend_count(content_lower), LAMBDA backend :
    Bind(frontend_count(content_lower), LAMBDA frontend :
    Bind(findall_weeks(content_lower, 1), LAMBDA week_estimates :
    [is_valid |-> /\ is_valid(backend, frontend, week_estimates)
                  /\ ~has_vague_estimates(content_lower),
     warnings |-> warnings_list(content_lower, backend, frontend, week_estimates),
     log |-> <<>>,
     checks |-> [backend_count |-> backend, frontend_count |-> frontend,
                 week_estimates |-> week_estimates]])))

\* the body of the try block when nothing in it raises
structural_checks(content_lower) ==
    Bind(backend_count(content_lower), LAMBDA backend :
    Bind(frontend_count(content_lower), LAMBDA frontend :
    Bind(findall_weeks(content_lower, 1), LAMBDA week_estimates :
    [is_valid |-> is_valid(backend, frontend, week_estimates),
     warnings |-> warnings_list(content_lower, backend, frontend, week_estimates),
     log |-> <<>>,
     checks |-> [backend_count |-> backend, frontend_count |-> frontend,
                 week_estimates |-> week_estimates]])))

\* a handler that passes the message on without the prefix
except_result_bare(e) ==
    [is_valid |-> FALSE,
     warnings |-> <<e>>,
     log |-> <<[name |-> "refineflow.llm.processor_langchain", level |-> "error",
                message |-> "Error during Jira validation: " \o e]>>,
     checks |-> NoChecks]

\* the except branch: logger.error and the result for the exception e
except_result(e) ==
    [is_valid |-> FALSE,
     warnings |-> <<"Validation error: " \o e>>,
     log |-> <<[name |-> "refineflow.llm.processor_langchain", level |-> "error",
                message |-> "Error during Jira validation: " \o e]>>,
     checks |-> NoChecks]

\* an emptiness test that does not strip
is_empty_unstripped(content) == content = <<>>

\* not jira_content or len(jira_content.strip()) == 0
is_empty(content) == content = <<>> \/ Len(Strip(content)) = 0

\* validate_jira_structure(jira_content), where raised is the message of the
\* exception a call inside the try block raises, "" if none does
validate_jira_structure(content, raised) ==
    IF content = None
    THEN [is_valid |-> FALSE, warnings |-> <<"Jira content is None">>, log |-> <<>>,
          checks |-> NoChecks]
    ELSE IF is_empty(content)
    THEN [is_valid |-> FALSE, warnings |-> <<"Jira content is empty">>, log |-> <<>>,
          checks |-> NoChecks]
    ELSE IF raised # ""
    THEN except_result(raised)
    ELSE Bind(Lower(content), LAMBDA content_lower : structural_checks(content_lower))

\* ---------------------------------------------------------------------
\* The texts the validator is given
\* ---------------------------------------------------------------------

\* the largest number of task headers of one area in a text
MaxTasks == 8

\* the i-th task header of an area, in one of three spellings the task
\* pattern accepts
Header(area, i) ==
    IF i % 3 = 1 THEN <<"#", "#", " ", "S", "u", "b", "t", "a", "r", "e", "f", "a", " ">> \o area \o <<"\n">>
    ELSE IF i % 3 = 2 THEN <<"#", "#", "#", " ">> \o area \o <<" ", DigitsOf(i, 1)[1], "\n">>
    ELSE <<"#">> \o Lower(area) \o <<"\n">>

\* the first n task headers of an area
RECURSIVE Headers(_, _)
Headers(area, n) == IF n = 0 THEN <<>> ELSE Headers(area, n - 1) \o Header(area, n)

\* what a text says besides its headers: estimates, vague estimates, and
\* the words of the unit-test, end-to-end and dependency checks
Bodies ==
    {<<>>,
     <<"T", "a", "s", "k", "\n">>,
     <<"2", ".", "5", " ", "W", "e", "e", "k", "s", "\n">>,
     <<"0", ".", "2", "5", " ", "w", "k", "\n", "3", " ", "s", "e", "m", "a", "n", "a", "s", "\n">>,
     <<"2", "-", "3", " ", "w", "e", "e", "k", "s", "\n", "0", ".", "2", "5", " ", "w", "k", "\n">>,
     <<"a", "r", "o", "u", "n", "d", " ", "2", "\n">>,
     <<"p", "y", "t", "e", "s", "t", "\n", "E", "2", "E", "\n", "a", "f", "t", "e", "r", "\n">>,
     <<"p", "y", "t", "e", "s", "t", "\n", "E", "2", "E", "\n", "a", "f", "t", "e", "r", "\n", "1", " ", "s", "e", "m", "a", "n", "a", "\n">>}

\* a generated export: a title, the task headers and the body
Document(backend, frontend, body) ==
    <<"#", " ", "T", "a", "s", "k", "\n">> \o Headers(<<"B", "a", "c", "k", "e", "n", "d">>, backend)
    \o Headers(<<"F", "r", "o", "n", "t", "e", "n", "d">>, frontend) \o body

Documents ==
    {Document(backend, frontend, body) :
        backend \in 0..MaxTasks, frontend \in 0..MaxTasks, body \in Bodies}

\* the arguments validate_jira_structure is called with
ValidatorInputs ==
    {None, <<>>, <<" ">>, <<"\n", " ", "\t">>} \cup Documents

\* the exceptions a call inside the try block is made to raise ("": none)
Failures == {"", "pattern failure"}

\* before a call of validate_jira_structure on a text; no activity is involved
InitValidate ==
    /\ jira_content \in ValidatorInputs
    /\ validation = NoValidation
    /\ checks = NoChecks
    /\ logged = <<>>
    /\ export_text = NoExport
    /\ pc = "call"
    /\ self = EmptyState
    /\ new_state = EmptyState
    /\ merged = NoState
    /\ state_json = model_dump_json(EmptyState)
    /\ status = "in_progress"
    /\ log_md = <<>>
    /\ clock = 0
    /\ result_data = NoData
    /\ jira_export_md = NoFile
    /\ StorageIdle

\* is_valid, warnings = validate_jira_structure(jira_content)
ValidateJiraStructure ==
    /\ pc = "call"
    /\ \E raised \in Failures :
          LET r == validate_jira_structure(jira_content, raised)
          IN /\ validation' = [is_valid |-> r.is_valid, warnings |-> r.warnings]
             /\ checks' = r.checks
             /\ logged' = logged \o r.log
    /\ pc' = "validated"
    /\ UNCHANGED <<jira_content, export_text, jira_export_md>>
    /\ UNCHANGED activity_vars
    /\ UNCHANGED storage_vars

\* ---------------------------------------------------------------------
\* JiraExporter.export_markdown (core/exporters.py 155-182)
\* ---------------------------------------------------------------------

\* the characters of the texts the model holds as whole strings
Characters ==
    ("" :> <<>>)
    @@ ("Resumo A" :> <<"R", "e", "s", "u", "m", "o", " ", "A">>)
    @@ ("Resumo B" :> <<"R", "e", "s", "u", "m", "o", " ", "B">>)
    @@ ("in_progress" :> <<"i", "n", "_", "p", "r", "o", "g", "r", "e", "s",
                                    "s">>)
    @@ ("finalized" :> <<"f", "i", "n", "a", "l", "i", "z", "e", "d">>)

\* a fallback that describes the parent task and no subtask
generate_jira_fallback_parent_only(title, description, summary) ==
    <<"#", "#", " ", "T", "a", "r", "e", "f", "a", " ", "P", "a", "i", ":", " ">> \o title \o <<"\n", "\n">>
    \o <<"*", "*", "D", "e", "s", "c", "r", "i", "ç", "ã", "o", "*", "*", ":", " ">> \o description \o <<"\n", "\n">>
    \o summary \o <<"\n">>

\* LLMProcessor._generate_jira_fallback(activity, state)
generate_jira_fallback(title, description, summary) ==
    <<"#", "#", " ", "T", "a", "r", "e", "f", "a", " ", "P", "a", "i", ":", " ">> \o title \o <<"\n", "\n">>
    \o <<"*", "*", "D", "e", "s", "c", "r", "i", "ç", "ã", "o", "*", "*", ":", " ">> \o description \o <<"\n", "\n">>
    \o summary \o <<"\n", "\n">>
    \o <<"*", "*", "C", "r", "i", "t", "é", "r", "i", "o", "s", " ", "d", "e", " ",
         "A", "c", "e", "i", "t", "a", "ç", "ã", "o", "*", "*", ":", "\n">>
    \o <<"-", " ", "T", "o", "d", "o", "s", " ", "o", "s", " ", "r", "e", "q", "u",
         "i", "s", "i", "t", "o", "s", " ", "f", "u", "n", "c", "i", "o", "n", "a",
         "i", "s", " ", "a", "t", "e", "n", "d", "i", "d", "o", "s", "\n">>
    \o <<"-", " ", "T", "o", "d", "o", "s", " ", "o", "s", " ", "t", "e", "s", "t",
         "e", "s", " ", "p", "a", "s", "s", "a", "n", "d", "o", "\n", "\n">>
    \o <<"#", "#", " ", "S", "u", "b", "t", "a", "r", "e", "f", "a", " ", "B", "a",
         "c", "k", "e", "n", "d", "\n", "\n">>
    \o <<"*", "*", "T", "í", "t", "u", "l", "o", "*", "*", ":", " ", "[", "B", "E",
         "]", " ">> \o title \o <<"\n", "\n">>
    \o <<"*", "*", "D", "e", "s", "c", "r", "i", "ç", "ã", "o", "*", "*", ":", " ",
         "I", "m", "p", "l", "e", "m", "e", "n", "t", "a", "r", " ", "c", "o", "m",
         "p", "o", "n", "e", "n", "t", "e", "s", " ", "d", "e", " ", "b", "a", "c",
         "k", "e", "n", "d", "\n", "\n">>
    \o <<"#", "#", " ", "S", "u", "b", "t", "a", "r", "e", "f", "a", " ", "F", "r",
         "o", "n", "t", "e", "n", "d", "\n", "\n">>
    \o <<"*", "*", "T", "í", "t", "u", "l", "o", "*", "*", ":", " ", "[", "F", "E",
         "]", " ">> \o title \o <<"\n", "\n">>
    \o <<"*", "*", "D", "e", "s", "c", "r", "i", "ç", "ã", "o", "*", "*", ":", " ",
         "I", "m", "p", "l", "e", "m", "e", "n", "t", "a", "r", " ", "c", "o", "m",
         "p", "o", "n", "e", "n", "t", "e", "s", " ", "d", "e", " ", "f", "r", "o",
         "n", "t", "e", "n", "d", "\n">>

\* how the generation of generate_jira_export ends
JiraOutcomes == {"unavailable", "no_llm", "exception", "ok"}

\* LLMProcessor.generate_jira_export(activity, state): the text returned and
\* the records logged, for an outcome of the LLM call and the text it answers
generate_jira_export(description, state, outcome, answer) ==
    LET fallback == generate_jira_fallback(Title, Characters[description],
                                           Characters[state.summary])
    IN IF outcome = "ok"
       THEN [content |-> answer,
             log |-> <<[name |-> "refineflow.llm.processor_langchain", level |-> "info",
                        message |-> "Generated Jira export via LangChain: "
                                    \o ToString(Len(answer)) \o " chars"]>>]
       ELSE IF outcome = "exception"
       THEN [content |-> fallback,
             log |-> <<[name |-> "refineflow.llm.processor_langchain", level |-> "error",
                        message |-> "Failed to generate Jira export with LangChain: "
                                    \o "llm failure"]>>]
       ELSE [content |-> fallback, log |-> <<>>]

\* the header export_markdown puts before the generated text
export_header(title, timestamp, activity_status) ==
    <<"#", " ", "J", "i", "r", "a", " ", "E", "x", "p", "o", "r", "t", ":", " ">> \o title \o <<"\n", "\n">>
    \o <<"*", "*", "G", "e", "n", "e", "r", "a", "t", "e", "d", "*", "*", ":", " ">> \o DigitsOf(timestamp, 1) \o <<"\n">>
    \o <<"*", "*", "S", "t", "a", "t", "u", "s", "*", "*", ":", " ">> \o Characters[activity_status] \o <<"\n", "\n">>
    \o <<"-", "-", "-", "\n", "\n">>

\* the export held back when the validator refuses the generated text
export_markdown_blocking(title, timestamp, activity_status, content) ==
    IF validate_jira_structure(content, "").is_valid
    THEN export_header(title, timestamp, activity_status) \o content
    ELSE <<"#", " ", "E", "r", "r", "o", "r", ":", " ", "i", "n", "v", "a", "l", "i", "d">>

\* the text export_markdown returns for an activity that exists: the header
\* and then the generated text
export_markdown(title, timestamp, activity_status, content) ==
    export_header(title, timestamp, activity_status) \o content

\* storage.write_jira_export(slug, content): the file and the record logged
write_jira_export(content) ==
    [file |-> content,
     log |-> <<[name |-> "refineflow.storage.filesystem", level |-> "info",
                message |-> "Wrote Jira export for: login"]>>]

\* export_markdown(slug) for the activity of the flow, which exists
ExportMarkdown ==
    /\ pc = "menu"
    /\ clock + 1 <= MaxClock
    /\ \E outcome \in JiraOutcomes, answer \in Documents :
          LET state == load_state(state_json)
              generated == generate_jira_export(state.summary, state, outcome, answer)
          IN /\ jira_content' = generated.content
             /\ logged' = logged \o generated.log
             /\ export_text' = export_markdown(Title, clock + 1, status, generated.content)
    /\ clock' = clock + 1
    /\ pc' = "exported"
    /\ UNCHANGED <<validation, checks, jira_export_md>>
    /\ UNCHANGED <<self, new_state, merged, state_json, status, log_md, result_data>>
    /\ UNCHANGED storage_vars

\* export_jira_flow(slug) for the activity of the flow: the Markdown export is
\* written to jira_export.md, the JSON and CSV exports are printed
ExportJiraFlow ==
    /\ pc = "menu"
    /\ clock + 1 <= MaxClock
    /\ \E format_choice \in {"Markdown", "JSON", "CSV"},
          outcome \in JiraOutcomes, answer \in Documents :
          IF format_choice = "Markdown"
          THEN LET state == load_state(state_json)
                   generated == generate_jira_export(state.summary, state, outcome, answer)
                   content == export_markdown(Title, clock + 1, status, generated.content)
                   written == write_jira_export(content)
               IN /\ jira_content' = generated.content
                  /\ export_text' = content
                  /\ jira_export_md' = written.file
                  /\ logged' = logged \o generated.log \o written.log
                  /\ clock' = clock + 1
                  /\ pc' = "export_saved"
          ELSE /\ pc' = "export_printed"
               /\ UNCHANGED <<jira_content, export_text, jira_export_md, logged, clock>>
    /\ UNCHANGED <<validation, checks>>
    /\ UNCHANGED <<self, new_state, merged, state_json, status, log_md, result_data>>
    /\ UNCHANGED storage_vars

\* a text to validate, or a new activity to export
InitJira == InitValidate \/ InitFlow

NextJira == ValidateJiraStructure \/ ExportMarkdown \/ ExportJiraFlow

SpecJira == InitJira /\ [][NextJira]_vars

\* ---------------------------------------------------------------------
\* Properties of validate_jira_structure
\* ---------------------------------------------------------------------

\* the text is None, empty or made of whitespace only
BlankInput ==
    \/ jira_content = None
    \/ \A i \in DOMAIN jira_content : jira_content[i] \in Whitespace

\* the validator returned from the end of its structural checks
Checked == pc = "validated" /\ checks # NoChecks

\* the warnings list holds the warning
Warned(warning) == \E i \in DOMAIN validation.warnings : validation.warnings[i] = warning

\* the warnings list holds a task-count warning of the area
TaskCountWarned(area) ==
    \E n \in 0..Len(jira_content) : Warned(TaskCountWarning(area, n))

\* what the fatal checks look at
BackendTasks == checks.backend_count

FrontendTasks == checks.frontend_count

HasEstimate == Len(checks.week_estimates) > 0

\* C13: on a text that is not blank the verdict is true exactly when the
\* counts are not both 0, neither count is 1, neither count exceeds 7, and
\* it is not the case that a task exists while no week estimate was found.
C13_VerdictRule ==
    Checked =>
        (validation.is_valid <=>
            /\ ~(BackendTasks = 0 /\ FrontendTasks = 0)
            /\ BackendTasks # 1
            /\ FrontendTasks # 1
            /\ BackendTasks <= 7
            /\ FrontendTasks <= 7
            /\ ~((BackendTasks > 0 \/ FrontendTasks > 0) /\ ~HasEstimate))

\* a text with 7 backend tasks, 2 to 7 frontend tasks and an estimate was accepted
C13_Witness ==
    /\ Checked
    /\ validation.is_valid
    /\ BackendTasks = 7
    /\ FrontendTasks \in 2..7
    /\ HasEstimate

\* C14: the validator returns for every input: a boolean and a list of
\* strings; when a call inside the checks fails, the result is False with the
\* single warning "Validation error: <message>".
C14_NeverRaises ==
    pc = "validated" =>
          /\ validation.is_valid \in BOOLEAN
          /\ validation.warnings \in Seq(STRING)
          /\ (logged # <<>> \/ (checks = NoChecks /\ ~BlankInput)) =>
                \E e \in Failures \ {""} :
                    /\ validation = [is_valid |-> FALSE,
                                      warnings |-> <<"Validation error: " \o e>>]
                    /\ Len(logged) = 1
                    /\ logged[1].level = "error"

\* a failure inside the checks of a long text was turned into the result
C14_Witness ==
    /\ pc = "validated"
    /\ jira_content # None
    /\ Len(jira_content) > 100
    /\ logged # <<>>
    /\ validation = [is_valid |-> FALSE,
                      warnings |-> <<"Validation error: pattern failure">>]

\* C15: for None, the empty text and a text of whitespace only the verdict is
\* False, the only warning is the one saying the content is None or empty, and
\* no structural check ran (nothing else was warned, nothing failed).
C15_BlankInputRejected ==
    (pc = "validated" /\ BlankInput) =>
        /\ checks = NoChecks
        /\ validation.is_valid = FALSE
        /\ validation.warnings =
               IF jira_content = None THEN <<"Jira content is None">>
               ELSE <<"Jira content is empty">>
        /\ logged = <<>>

\* a text of whitespace only was rejected as empty
C15_Witness ==
    /\ pc = "validated"
    /\ jira_content = <<"\n", " ", "\t">>
    /\ validation = [is_valid |-> FALSE, warnings |-> <<"Jira content is empty">>]

\* C16: a count of 1 or above 7 on one side makes the verdict False and is
\* warned about with the count and the 2-7 range, whatever the other side
\* holds; a count within 2..7 brings no task-count warning of that side.
C16_TaskCountOutOfRange ==
    Checked =>
        /\ (BackendTasks = 1 \/ BackendTasks > 7) =>
              ~validation.is_valid /\ Warned(TaskCountWarning("Backend", BackendTasks))
        /\ BackendTasks \in 2..7 => ~TaskCountWarned("Backend")
        /\ (FrontendTasks = 1 \/ FrontendTasks > 7) =>
              ~validation.is_valid /\ Warned(TaskCountWarning("Frontend", FrontendTasks))
        /\ FrontendTasks \in 2..7 => ~TaskCountWarned("Frontend")

\* one backend task beside 2 to 7 frontend tasks with an estimate was rejected
C16_Witness ==
    /\ Checked
    /\ BackendTasks = 1
    /\ FrontendTasks \in 2..7
    /\ HasEstimate
    /\ ~validation.is_valid
    /\ Warned(TaskCountWarning("Backend", 1))
    /\ ~TaskCountWarned("Frontend")

\* C17: a side without tasks does not reject the text when the other side
\* holds 2 to 7 tasks and an estimate is present (the empty side is still
\* warned about); the no-tasks rejection falls only when both sides are empty.
C17_ZeroOnOneSide ==
    Checked =>
        /\ (BackendTasks = 0 /\ FrontendTasks \in 2..7 /\ HasEstimate) =>
              validation.is_valid /\ Warned(TaskCountWarning("Backend", 0))
        /\ (FrontendTasks = 0 /\ BackendTasks \in 2..7 /\ HasEstimate) =>
              validation.is_valid /\ Warned(TaskCountWarning("Frontend", 0))
        /\ Warned(NoTasksWarning) <=> (BackendTasks = 0 /\ FrontendTasks = 0)
        /\ (BackendTasks = 0 /\ FrontendTasks = 0) => ~validation.is_valid

\* a text with frontend tasks only was accepted
C17_Witness ==
    /\ Checked
    /\ BackendTasks = 0
    /\ FrontendTasks = 3
    /\ HasEstimate
    /\ validation.is_valid
    /\ Warned(TaskCountWarning("Backend", 0))

\* C18: a text with a task and no week estimate is rejected and warned about
\* the missing estimates, also when both counts are within 2..7; a text
\* without any task is not warned about missing estimates.
C18_MissingEstimates ==
    Checked =>
        /\ ((BackendTasks > 0 \/ FrontendTasks > 0) /\ ~HasEstimate) =>
              ~validation.is_valid /\ Warned(NoEstimatesWarning)
        /\ (BackendTasks = 0 /\ FrontendTasks = 0) => ~Warned(NoEstimatesWarning)
        /\ HasEstimate => ~Warned(NoEstimatesWarning)

\* four backend and four frontend tasks without an estimate were rejected
C18_Witness ==
    /\ Checked
    /\ jira_content = Document(4, 4, <<>>)
    /\ BackendTasks = 4
    /\ FrontendTasks = 4
    /\ ~HasEstimate
    /\ ~validation.is_valid
    /\ Warned(NoEstimatesWarning)

\* the texts that answer none of the five non-fatal checks differently from
\* an empty body, with and without a week estimate
PlainBodies == {<<>>, <<"2", ".", "5", " ", "W", "e", "e", "k", "s", "\n">>}

\* C19: the verdict of a text is the verdict of every plain text with the same
\* backend count, the same frontend count and the same answer to "is there a
\* week estimate": the unit-test, end-to-end, vague-estimate, minimum and
\* dependency checks add warnings and leave the verdict alone.
C19_NonFatalChecksKeepVerdict ==
    Checked =>
        \A body \in PlainBodies :
            LET other == validate_jira_structure(
                             Document(BackendTasks, FrontendTasks, body), "")
            IN (/\ other.checks.backend_count = BackendTasks
                /\ other.checks.frontend_count = FrontendTasks
                /\ (Len(other.checks.week_estimates) > 0) = HasEstimate)
               => other.is_valid = validation.is_valid

\* a text was accepted although all five non-fatal checks warned about it
C19_Witness ==
    /\ Checked
    /\ validation.is_valid
    /\ Warned(UnitTestWarning)
    /\ Warned(E2EWarning)
    /\ Warned(VagueWarning)
    /\ Warned(MinimumWarning([num |-> 25, exp |-> 2]))
    /\ Warned(DependencyWarning)

\* ---------------------------------------------------------------------
\* Properties of export_markdown
\* ---------------------------------------------------------------------

\* the records the exporter's logger was handed at a level with a message
ExporterRecords(level, message) ==
    {k \in DOMAIN logged :
        /\ logged[k].name = "refineflow.core.exporters"
        /\ logged[k].level = level
        /\ logged[k].message = message}

\* C20: once export_markdown returned an export, every warning the validator
\* gives for the generated content was logged exactly once by the exporter
\* with logger.warning as "Jira validation warning: <warning>".
C20_ExportWarningsLogged ==
    pc = "exported" =>
        LET r == validate_jira_structure(jira_content, "")
        IN \A i \in DOMAIN r.warnings :
               Cardinality(ExporterRecords("warning",
                   "Jira validation warning: " \o r.warnings[i])) = 1

----------------------------------------------------------------------------
(* The storage of all activities (storage/filesystem.py, storage/index.py)   *)
(* and the flows that create, finalize and extend them (cli/flows.py).       *)
(* activities maps each slug that has a directory to its files; index maps   *)
(* each slug that has a row to the row.                                      *)

\* the characters the pattern \w matches
WordChars ==
    {c \in Alphabet :
        LET p == CodePoint[c]
        IN \/ p >= 48 /\ p <= 57
           \/ p >= 65 /\ p <= 90
           \/ p = 95
           \/ p >= 97 /\ p <= 122
           \/ p >= 192 /\ p <= 255 /\ p \notin {215, 247}}

\* text[:50]
SlugLimit == 50

\* re.sub(r"[-\s]+", "-", text)
RECURSIVE hyphenate(_, _)
hyphenate(text, i) ==
    IF i > Len(text) THEN <<>>
    ELSE IF text[i] \in Whitespace \cup {"-"}
    THEN <<"-">> \o hyphenate(text, RunEnd(text, i, Whitespace \cup {"-"}))
    ELSE <<text[i]>> \o hyphenate(text, i + 1)

\* slugify(text)
slugify(text) ==
    LET kept == SelectSeq(Strip(Lower(text)),
                          LAMBDA c : c \in WordChars \cup Whitespace \cup {"-"})
        joined == hyphenate(kept, 1)
    IN SubSeq(joined, 1, IF Len(joined) < SlugLimit THEN Len(joined) ELSE SlugLimit)

\* the titles the user types: "Login", "login.", "Log - in", and nothing
Titles ==
    {Title,
     <<"l", "o", "g", "i", "n", ".">>,
     <<"L", "o", "g", " ", "-", " ", "i", "n">>,
     <<>>}

\* the slugs that have a directory
Slugs == DOMAIN activities

\* Activity(slug=..., title=..., description=..., created_at=..., updated_at=...)
Activity(activity_slug, title, description, timestamp) ==
    [slug |-> activity_slug, title |-> title, description |-> description,
     status |-> "in_progress", created_at |-> timestamp, updated_at |-> timestamp]

\* index.add_activity(activity): INSERT OR REPLACE of the row of the slug
add_activity(rows, activity) == (activity.slug :> activity) @@ rows

\* an update that leaves the row as it is
update_activity_ignored(rows, activity) == rows

\* index.update_activity(activity)
update_activity(rows, activity) == add_activity(rows, activity)

\* a state with every field at its default
initial_state_empty(activity) == EmptyState

\* ActivityState(summary=activity.description, last_updated=activity.created_at)
initial_state(activity) ==
    [EmptyState EXCEPT !.summary = activity.description,
                       !.last_updated = activity.created_at]

\* storage.create_activity(activity): the directory of the slug with its
\* files written, and the row of the index
create_activity(store, activity) ==
    [activities |->
        (activity.slug :> [activity_json |-> activity,
                           state_json |-> model_dump_json(initial_state(activity)),
                           log_md |-> <<>>])
        @@ store.activities,
     index |-> add_activity(store.index, activity)]

\* storage.load_activity(slug)
load_activity(store, activity_slug) ==
    IF activity_slug \in DOMAIN store.activities
    THEN store.activities[activity_slug].activity_json
    ELSE NoFile

\* storage.save_activity(activity) for an activity whose directory exists
save_activity(store, activity) ==
    [activities |-> [store.activities EXCEPT ![activity.slug].activity_json = activity],
     index |-> update_activity(store.index, activity)]

\* storage.finalize_activity(slug) for an activity that exists
finalize_activity(store, activity_slug, timestamp) ==
    save_activity(store, [load_activity(store, activity_slug)
                              EXCEPT !.status = "finalized", !.updated_at = timestamp])

\* storage.is_finalized(slug)
is_finalized(store, activity_slug) ==
    /\ activity_slug \in DOMAIN store.activities
    /\ load_activity(store, activity_slug).status = "finalized"

\* the activities directory and the index as the variables hold them
Store == [activities |-> activities, index |-> index]

InitStorage ==
    /\ StorageIdle
    /\ pc = "main_menu"
    /\ clock = 0
    /\ self = EmptyState
    /\ new_state = EmptyState
    /\ merged = NoState
    /\ state_json = NoState
    /\ status = "in_progress"
    /\ log_md = <<>>
    /\ result_data = NoData
    /\ JiraIdle
    /\ jira_export_md = NoFile

\* what the storage actions leave alone: the activity of the entry flow and
\* the export
StorageFrame ==
    /\ UNCHANGED <<self, new_state, merged, state_json, status, log_md, result_data>>
    /\ UNCHANGED jira_vars

\* create_activity_flow()
CreateActivityFlow ==
    /\ clock + 1 <= MaxClock
    /\ \E title \in Titles, description \in Descriptions :
          IF title = <<>>
          THEN /\ pc' = "no_title"
               /\ UNCHANGED <<activities, index, slug, clock>>
          ELSE LET created == create_activity(
                                  Store, Activity(slugify(title), title, description,
                                                  clock + 1))
               IN /\ activities' = created.activities
                  /\ index' = created.index
                  /\ slug' = slugify(title)
                  /\ clock' = clock + 1
                  /\ pc' = "created"
    /\ StorageFrame

\* storage.save_activity(activity), called with an activity loaded from the
\* storage and changed
SaveActivity ==
    /\ clock + 1 <= MaxClock
    /\ \E activity_slug \in Slugs, activity_status \in {"in_progress", "finalized"} :
          LET saved == save_activity(
                           Store, [load_activity(Store, activity_slug)
                                       EXCEPT !.status = activity_status,
                                              !.updated_at = clock + 1])
          IN /\ activities' = saved.activities
             /\ index' = saved.index
             /\ slug' = activity_slug
    /\ clock' = clock + 1
    /\ pc' = "activity_saved"
    /\ StorageFrame

\* finalize_activity_flow(slug)
FinalizeActivityFlow ==
    /\ clock + 1 <= MaxClock
    /\ \E activity_slug \in Slugs, confirm \in BOOLEAN :
          /\ slug' = activity_slug
          /\ IF confirm
             THEN LET saved == finalize_activity(Store, activity_slug, clock + 1)
                  IN /\ activities' = saved.activities
                     /\ index' = saved.index
                     /\ clock' = clock + 1
                     /\ pc' = "finalized"
             ELSE /\ pc' = "not_confirmed"
                  /\ UNCHANGED <<activities, index, clock>>
    /\ StorageFrame

\* the answers of the extraction in the flows on the storage
StorageResults ==
    {[EmptyResult EXCEPT !.functional_requirements = << <<"a">> >>]}

\* add_entry_flow(slug) on the storage
AddEntryFlow ==
    /\ clock + 2 <= MaxClock
    /\ \E activity_slug \in Slugs,
          outcome \in {"ok", "unavailable"},
          result \in StorageResults :
          LET returned == early_return(is_finalized(Store, activity_slug),
                                       "terminal", "texto", "note")
              entry == [entry_type |-> "note", content |-> "texto", timestamp |-> clock + 1]
              dir == activities[activity_slug]
              state == load_state(dir.state_json)
              updated == ActivityState(rename_cost_estimates(result))
          IN /\ slug' = activity_slug
             /\ IF returned # "none"
                THEN /\ pc' = returned
                     /\ UNCHANGED <<activities, clock>>
                ELSE IF extraction_failed(outcome, updated)
                THEN /\ activities' = [activities EXCEPT ![activity_slug].log_md =
                                           append_to_log(dir.log_md, entry)]
                     /\ clock' = clock + 1
                     /\ pc' = "skipped"
                ELSE LET updated_state == [updated EXCEPT !.last_updated = clock + 2]
                         r == process_entry(state, updated_state)
                     IN /\ activities' =
                              [activities EXCEPT
                                  ![activity_slug].log_md = append_to_log(dir.log_md, entry),
                                  ![activity_slug].state_json = model_dump_json(r.ret)]
                        /\ clock' = clock + 2
                        /\ pc' = "saved"
    /\ UNCHANGED index
    /\ StorageFrame

NextStorage == CreateActivityFlow \/ SaveActivity \/ FinalizeActivityFlow \/ AddEntryFlow

SpecStorage == InitStorage /\ [][NextStorage]_vars

----------------------------------------------------------------------------
(* Merge: categories and repeated merges *)

\* the normalized questions a dict holds under category
QuestionKeys(d, category) ==
    {Normalized(QuestionsOf(d, category)[k]) : k \in DOMAIN QuestionsOf(d, category)}

\* C25: deduplication is per category only: a non-blank question that base or
\* incoming holds in category X is still held by category X of the merged
\* state when an equal question (up to case and surrounding whitespace) is
\* held by another category Y of base or incoming.
C25_DedupePerCategory ==
    Returned =>
        \A X \in DictKeys(merged.open_questions), Y \in DictKeys(merged.open_questions) :
            X # Y =>
               \A key \in (QuestionKeys(self.open_questions, X)
                              \cup QuestionKeys(new_state.open_questions, X))
                           \cap (QuestionKeys(self.open_questions, Y)
                                   \cup QuestionKeys(new_state.open_questions, Y)) :
                   key # <<>> => key \in QuestionKeys(merged.open_questions, X)

\* base holds a question in one category, incoming holds an equal question
\* in another category, and the merged state holds it in both
C25_Witness ==
    /\ Returned
    /\ \E X \in DictKeys(self.open_questions), Y \in DictKeys(new_state.open_questions) :
          /\ X # Y
          /\ \E key \in QuestionKeys(self.open_questions, X)
                           \cap QuestionKeys(new_state.open_questions, Y) :
                /\ key # <<>>
                /\ key \in QuestionKeys(merged.open_questions, X)
                /\ key \in QuestionKeys(merged.open_questions, Y)

\* C26: merging the same candidate again changes nothing: the merge of
\* merge(a, b) with b equals merge(a, b) in every field, the order of the
\* lists and of the open_questions keys and last_updated included.
C26_MergeAgainAbsorbed ==
    Returned => merge_with(merged, new_state).ret = merged

\* a merge that united two lists: the candidate brought an item the base
\* held already, and the result holds two items or more
C26_Witness ==
    /\ Returned
    /\ \E f \in StringListFields \cup RecordListFields :
          /\ self[f] # <<>>
          /\ new_state[f] # <<>>
          /\ Len(merged[f]) >= 2
          /\ Len(merged[f]) < Len(self[f]) + Len(new_state[f])

----------------------------------------------------------------------------
(* The entry flow: failed extractions and the log *)

\* the Entry add_entry_flow creates at this tick of the clock
CreatedEntry == [entry_type |-> "note", content |-> "texto", timestamp |-> clock + 1]

\* process_entry got no parsed result, or a result ActivityState refuses
ExtractionFailed(data) ==
    data = NoData \/ ActivityState(rename_cost_estimates(data)) = ValidationError

\* C23: when the extraction fails, add_entry_flow saves no state: the
\* persisted state after the flow equals the persisted state before it and
\* no merge is returned. The persisted state changes only in a flow that
\* saves, and then to the merge of the state loaded in that flow with the
\* new candidate.
C23_FailedExtractionSavesNothing ==
    [][/\ log_md' # log_md /\ ExtractionFailed(result_data') =>
              /\ pc' = "skipped"
              /\ state_json' = state_json
              /\ merged' = merged
       /\ state_json' # state_json =>
              /\ pc' = "saved"
              /\ ~ExtractionFailed(result_data')
              /\ state_json'
                    = model_dump_json(merge_with(load_state(state_json), new_state').ret)]_vars

\* a flow whose extraction failed, after a flow that saved a merge: the
\* merge saved before is still the persisted state
C23_Witness ==
    /\ pc = "skipped"
    /\ Len(log_md) >= 2
    /\ merged # NoState
    /\ state_json = model_dump_json(merged)
    /\ merged.functional_requirements # <<>>

\* C28: the log is append-only: every add_entry_flow that creates an entry
\* appends exactly that entry to the log, whether the extraction then gives
\* a merged state or nothing, and no step of the entry flow changes the log
\* in another way.
C28_LogAppendOnly ==
    [][IF pc' \in {"saved", "skipped"}
       THEN log_md' = Append(log_md, CreatedEntry)
       ELSE log_md' = log_md]_vars

\* a second entry appended after the first, its extraction merged and saved
C28_Witness ==
    /\ pc = "saved"
    /\ Len(log_md) = 2
    /\ log_md[1].timestamp < log_md[2].timestamp
    /\ log_md[2].timestamp < merged.last_updated

----------------------------------------------------------------------------
(* The export and its validation *)

\* export_markdown has returned, called by a test or by export_jira_flow
Exported == pc \in {"exported", "export_saved"}

\* C21: validation never blocks the export: for an existing activity the
\* text export_markdown returns is the header followed by the whole generated
\* text, whatever the validator answers for that text, and export_jira_flow
\* writes that text to jira_export.md.
C21_ExportNeverBlocked ==
    Exported =>
        /\ export_text = export_header(Title, clock, status) \o jira_content
        /\ pc = "export_saved" => jira_export_md = export_text

\* an export written to jira_export.md whose generated text came from the LLM
\* and gets the verdict False with three warnings or more
C21_Witness ==
    /\ pc = "export_saved"
    /\ jira_export_md = export_text
    /\ \E k \in DOMAIN logged : logged[k].level = "info" /\ logged[k].name = "refineflow.llm.processor_langchain"
    /\ ~validate_jira_structure(jira_content, "").is_valid
    /\ Len(validate_jira_structure(jira_content, "").warnings) >= 3

\* the export was generated without the LLM: generate_jira_export logged no
\* generation by LangChain
FallbackExported ==
    /\ Exported
    /\ \A k \in DOMAIN logged :
          ~(logged[k].name = "refineflow.llm.processor_langchain" /\ logged[k].level = "info")

\* C30: the text generate_jira_export returns without the LLM (client
\* unavailable, no LLM obtained, generation raised) holds exactly one backend
\* section header, exactly one frontend section header and no week estimate,
\* and validate_jira_structure gives it the verdict False.
C30_FallbackRejected ==
    FallbackExported =>
        Bind(validate_jira_structure(jira_content, ""), LAMBDA r :
            /\ r.checks # NoChecks
            /\ r.checks.backend_count = 1
            /\ r.checks.frontend_count = 1
            /\ r.checks.week_estimates = <<>>
            /\ ~r.is_valid)

\* the generation raised for an activity with a description: the fallback
\* text was exported
C30_Witness ==
    /\ FallbackExported
    /\ \E k \in DOMAIN logged : logged[k].level = "error"
    /\ state_json.summary = "Resumo A"
    /\ jira_content = generate_jira_fallback(Title, Characters["Resumo A"],
                                             Characters["Resumo A"])

----------------------------------------------------------------------------
(* Properties of the storage *)

\* the ActivityState persisted for a slug
PersistedState(activity_slug) == load_state(activities[activity_slug].state_json)

\* every list, the open_questions and the canvas of a state are empty
NothingCollected(state) ==
    /\ \A f \in StringListFields \cup RecordListFields : state[f] = <<>>
    /\ state.open_questions = <<>>
    /\ state.canvas = <<>>

\* C24 as stated: the state persisted by create_activity is empty: an empty
\* summary, empty lists, an empty open_questions mapping and an empty canvas.
C24_CreatedStateEmpty ==
    pc = "created" =>
        /\ PersistedState(slug).summary = ""
        /\ NothingCollected(PersistedState(slug))

\* C24 as amended: the state persisted by create_activity holds the
\* description of the activity as its summary, and nothing else: its lists,
\* its open_questions mapping and its canvas are empty.
C24_CreatedStateHoldsDescription ==
    pc = "created" =>
        /\ PersistedState(slug).summary = activities[slug].activity_json.description
        /\ NothingCollected(PersistedState(slug))

\* an activity created with a description
C24_Witness ==
    /\ pc = "created"
    /\ activities[slug].activity_json.description = "Resumo A"
    /\ PersistedState(slug).summary = "Resumo A"
    /\ activities[slug].log_md = <<>>

\* C22: a finalized activity is read-only: no step appends to its log or
\* saves a state for it (add_entry_flow returns before it creates an entry),
\* and no step of the storage or of the flows sets it back to in_progress.
C22_FinalizedReadOnly ==
    [][\A s \in DOMAIN activities :
          activities[s].activity_json.status = "finalized" =>
              /\ s \in DOMAIN activities'
              /\ activities'[s].activity_json.status = "finalized"
              /\ activities'[s].log_md = activities[s].log_md
              /\ activities'[s].state_json = activities[s].state_json]_vars

\* C27: creating an activity leaves the persisted status, state document
\* and log of every activity that exists already unchanged.
C27_CreateLeavesOthersUnchanged ==
    [][pc' = "created" =>
          \A s \in DOMAIN activities :
              /\ s \in DOMAIN activities'
              /\ activities'[s].activity_json.status = activities[s].activity_json.status
              /\ activities'[s].state_json = activities[s].state_json
              /\ activities'[s].log_md = activities[s].log_md]_vars

\* C29: the index agrees with the filesystem: the slugs that have a row are
\* the slugs that have a directory, one row each, and the row of a slug has
\* the status and the updated_at of the activity.json of that slug.
C29_IndexAgreesWithFiles ==
    /\ DOMAIN index = DOMAIN activities
    /\ \A s \in DOMAIN activities :
          /\ index[s].slug = s
          /\ index[s].status = activities[s].activity_json.status
          /\ index[s].updated_at = activities[s].activity_json.updated_at

\* two activities on disk, one of them finalized after it was created, the
\* other in progress
C29_Witness ==
    /\ Cardinality(DOMAIN activities) = 2
    /\ \E s \in DOMAIN activities :
          /\ index[s].status = "finalized"
          /\ index[s].updated_at > index[s].created_at
    /\ \E s \in DOMAIN activities : index[s].status = "in_progress"

====
